---- MODULE Spec2Model ----
(***************************************************************************)
(* Model of bell: the build script (build.rs) that parses calendar.bell    *)
(* and schedules.bell and cross-checks them, and the resolution queries of *)
(* src/data.rs and src/main.rs that run on the resulting AppData.          *)
(*                                                                         *)
(* Abstractions.  A text file is a sequence of lines and a line is the     *)
(* record of its whitespace-separated tokens.  A date is a day number      *)
(* 0..MaxDate, day 0 being a Monday and MaxDate standing for Date::MAX     *)
(* (Date::next_day returns None there).  A time of day is a tick           *)
(* 0..MaxTime.  Comments (`# ...`) and Meta are carried through by the     *)
(* code without influencing any decision and are left out.                 *)
(***************************************************************************)
EXTENDS Integers, Sequences, FiniteSets, TLC

\* ------------------------------------------------------------------ bounds
MaxDate == 2
MaxTime == 2
MaxCalLines == 2
MaxSchedLines == 4
MaxPeriods == 3
MaxSearchPeriods == 2

\* --------------------------------------------------------------- constants
DaysPerWeek == 7

Names == {"A", "B"}
Msgs == {"x", "y"}
NoName == "none"
NoDate == -1
NoTime == -1
Dates == 0..MaxDate
Times == 0..MaxTime
Weekdays == 0..(DaysPerWeek - 1)

\* Date::weekday: day 0 is a Monday, Monday = 0 .. Sunday = 6.
weekday(date) == date % DaysPerWeek

\* Date::next_day: None (NoDate) at Date::MAX.
next_day(date) == IF date = MaxDate THEN NoDate ELSE date + 1

\* ---------------------------------------------------------- calendar text
\* A line of calendar.bell after trim and split_whitespace.
\*   default_header  "* Default Week"
\*   special_header  "* Special Days"
\*   blank           the empty line
\*   day             first token is a day abbreviation (Mon = 0 .. Sun = 6)
\*   date            first token is MM/DD/YYYY (until = NoDate) or
\*                   MM/DD/YYYY-MM/DD/YYYY
\* schedule is the second token, NoName when the line has none.
CalLine(kind, day, on, until, schedule) ==
    [kind |-> kind, day |-> day, on |-> on, until |-> until, schedule |-> schedule]

DefaultHeader == CalLine("default_header", -1, NoDate, NoDate, "Default")
SpecialHeader == CalLine("special_header", -1, NoDate, NoDate, "Special")
BlankCalLine == CalLine("blank", -1, NoDate, NoDate, NoName)

DayLines == {CalLine("day", d, NoDate, NoDate, n) : d \in Weekdays, n \in Names}
DateLines ==
    {CalLine("date", -1, on, until, n) :
        on \in Dates, until \in Dates \cup {NoDate}, n \in Names}

\* Week::default(): every slot None.
EmptyWeek == [d \in Weekdays |-> NoName]

SpecialDay(on, until, schedule) == [on |-> on, until |-> until, schedule |-> schedule]

NoCalendar == [default |-> EmptyWeek, special |-> <<>>]

\* The first loop of read_calendar: the default-week section from line i on.
\* Returns the week, the index of the line after "* Special Days" (or past
\* the end) and the panic message ("" when none).
RECURSIVE read_default_week(_, _, _)
read_default_week(text, i, week) ==
    IF i > Len(text) THEN [week |-> week, next |-> i, panic |-> ""]
    ELSE LET line == text[i] IN
         IF line.kind = "blank" THEN read_default_week(text, i + 1, week)
         ELSE IF line.kind = "special_header"
              THEN [week |-> week, next |-> i + 1, panic |-> ""]
         ELSE IF line.schedule = NoName
              THEN [week |-> week, next |-> i, panic |-> "Missing schedule for default week"]
         ELSE IF line.kind = "day"
              THEN read_default_week(text, i + 1, [week EXCEPT ![line.day] = line.schedule])
         ELSE [week |-> week, next |-> i, panic |-> "Invalid day in default week"]

\* push_special inserting at the front of the vector.
push_special_front(special_days, line) ==
    <<SpecialDay(line.on, line.until, line.schedule)>> \o special_days

\* Vec::push of one parsed special day.
push_special(special_days, line) ==
    Append(special_days, SpecialDay(line.on, line.until, line.schedule))

\* The second loop of read_calendar: the special-days section from line i on.
RECURSIVE read_special_days(_, _, _)
read_special_days(text, i, special_days) ==
    IF i > Len(text) THEN [special |-> special_days, panic |-> ""]
    ELSE LET line == text[i] IN
         IF line.kind = "blank" THEN read_special_days(text, i + 1, special_days)
         ELSE IF line.schedule = NoName
              THEN [special |-> special_days, panic |-> "Invalid special day entry"]
         ELSE IF line.kind = "date"
              THEN read_special_days(text, i + 1, push_special(special_days, line))
         ELSE [special |-> special_days, panic |-> "Date::parse failed"]

read_calendar(text) ==
    IF Len(text) = 0
    THEN [calendar |-> NoCalendar, panic |-> "Option::unwrap on None"]
    ELSE IF text[1].kind # "default_header"
    THEN [calendar |-> NoCalendar, panic |-> "Invalid start of calendar file"]
    ELSE LET w == read_default_week(text, 2, EmptyWeek) IN
         IF w.panic # "" THEN [calendar |-> NoCalendar, panic |-> w.panic]
         ELSE LET s == read_special_days(text, w.next, <<>>) IN
              IF s.panic # "" THEN [calendar |-> NoCalendar, panic |-> s.panic]
              ELSE [calendar |-> [default |-> w.week, special |-> s.special],
                    panic |-> ""]

\* ---------------------------------------------------------- schedule text
\* A line of schedules.bell after trim.
\*   blank    the empty line
\*   header   starts with '*'; name is the first token after it (NoName
\*            when there is none)
\*   period   "<HH:MM> <message>" with a valid time
\*   invalid  any other line (no whitespace, empty message, bad time)
SchedLine(kind, name, start, msg) ==
    [kind |-> kind, name |-> name, start |-> start, msg |-> msg]

BlankSchedLine == SchedLine("blank", NoName, NoTime, "")
InvalidSchedLine == SchedLine("invalid", NoName, NoTime, "")
HeaderLines == {SchedLine("header", n, NoTime, "") : n \in Names}
NamelessHeader == SchedLine("header", NoName, NoTime, "")
PeriodLines == {SchedLine("period", NoName, t, m) : t \in Times, m \in Msgs}

Period(start, msg) == [msg |-> msg, start |-> start]
NoPeriod == Period(NoTime, "")
Schedule(periods) == [periods |-> periods]

\* HashMap::new(): the store is a function from the defined names.
EmptyStore == [n \in {} |-> Schedule(<<>>)]

\* HashMap::insert(name, schedule): the old value is replaced.
store_insert(schedules, name, schedule) ==
    [n \in (DOMAIN schedules) \cup {name} |->
        IF n = name THEN schedule ELSE schedules[n]]

\* flush_block that checks for a duplicate only while a periods list is open.
flush_block_unchecked_empty(schedules, current_name, current_periods) ==
    IF current_name = NoName THEN [schedules |-> schedules, panic |-> ""]
    ELSE [schedules |-> store_insert(schedules, current_name, Schedule(current_periods)),
          panic |-> IF current_name \in DOMAIN schedules /\ current_periods # <<>>
                    THEN "Duplicate schedule name in schedules.bell"
                    ELSE ""]

\* The flush of the block being read, done at a header and at the end of the
\* input: insert, and panic when the name was already in the map.
flush_block(schedules, current_name, current_periods) ==
    IF current_name = NoName THEN [schedules |-> schedules, panic |-> ""]
    ELSE [schedules |-> store_insert(schedules, current_name, Schedule(current_periods)),
          panic |-> IF current_name \in DOMAIN schedules
                    THEN "Duplicate schedule name in schedules.bell"
                    ELSE ""]

\* The loop of read_schedules from line i on, and the final flush.
RECURSIVE read_schedule_lines(_, _, _, _, _)
read_schedule_lines(text, i, schedules, current_name, current_periods) ==
    IF i > Len(text) THEN flush_block(schedules, current_name, current_periods)
    ELSE LET line == text[i] IN
         IF line.kind = "blank"
         THEN read_schedule_lines(text, i + 1, schedules, current_name, current_periods)
         ELSE IF line.kind = "header"
         THEN LET f == flush_block(schedules, current_name, current_periods) IN
              IF f.panic # "" THEN f
              ELSE IF line.name = NoName
              THEN [schedules |-> f.schedules,
                    panic |-> "Missing schedule name in schedules.bell"]
              ELSE read_schedule_lines(text, i + 1, f.schedules, line.name, <<>>)
         ELSE IF current_name = NoName
         THEN [schedules |-> schedules,
               panic |-> "Schedule period found before any schedule header"]
         ELSE IF line.kind = "period"
         THEN read_schedule_lines(text, i + 1, schedules, current_name,
                                  Append(current_periods, Period(line.start, line.msg)))
         ELSE [schedules |-> schedules, panic |-> "Invalid period entry in schedules.bell"]

read_schedules(text) == read_schedule_lines(text, 1, EmptyStore, NoName, <<>>)

\* -------------------------------------------------------- cross-validator
\* The HashSet verify_schedules collects: the seven slots, then the special
\* days.
calendar_schedules(calendar) ==
    {calendar.default[d] : d \in {d \in Weekdays : calendar.default[d] # NoName}}
    \cup {calendar.special[i].schedule : i \in DOMAIN calendar.special}

\* verify_schedules checking the calendar against the store instead.
verify_schedules_inverse(schedules, calendar) ==
    IF \A name \in calendar_schedules(calendar) : name \in DOMAIN schedules
    THEN ""
    ELSE "Schedule is not referenced in calendar"

\* verify_schedules checking both directions.
verify_schedules_both(schedules, calendar) ==
    IF calendar_schedules(calendar) = DOMAIN schedules
    THEN ""
    ELSE "Schedule is not referenced in calendar"

\* "" when verify_schedules returns, its panic message otherwise.
verify_schedules(schedules, calendar) ==
    IF \A name \in DOMAIN schedules : name \in calendar_schedules(calendar)
    THEN ""
    ELSE "Schedule is not referenced in calendar"

\* ------------------------------------------------------ resolution engine
\* is_special_day_match with the end of a range left out.
is_special_day_match_exclusive(date, special) ==
    IF special.until # NoDate
    THEN date >= special.on /\ date < special.until
    ELSE date = special.on

is_special_day_match(date, special) ==
    IF special.until # NoDate
    THEN date >= special.on /\ date <= special.until
    ELSE date = special.on

\* The for loop of schedule_name_for_date over calendar.special from index
\* i on: the schedule of the first match, NoName when the loop falls through.
RECURSIVE first_special_match(_, _, _)
first_special_match(special, date, i) ==
    IF i > Len(special) THEN NoName
    ELSE IF is_special_day_match(date, special[i]) THEN special[i].schedule
    ELSE first_special_match(special, date, i + 1)

\* The match on date.weekday(): the slot of the default week.
default_week_slot(week, date) == week[weekday(date)]

\* AppData::schedule_name_for_date; NoName is None.
schedule_name_for_date(data, date) ==
    LET special == first_special_match(data.calendar.special, date, 1) IN
    IF special # NoName THEN special
    ELSE default_week_slot(data.calendar.default, date)

\* The scan of current_section: the index (1-based) of the last period
\* reached whose start is <= time, stopping at the first period that starts
\* later; 0 is None.
\* scan_periods with `time > period.start`.
RECURSIVE scan_periods_exclusive(_, _, _, _)
scan_periods_exclusive(periods, time, idx, current_index) ==
    IF idx > Len(periods) THEN current_index
    ELSE IF time > periods[idx].start
         THEN scan_periods_exclusive(periods, time, idx + 1, idx)
         ELSE current_index

\* scan_periods without the `break`.
RECURSIVE scan_periods_no_break(_, _, _, _)
scan_periods_no_break(periods, time, idx, current_index) ==
    IF idx > Len(periods) THEN current_index
    ELSE IF time >= periods[idx].start
         THEN scan_periods_no_break(periods, time, idx + 1, idx)
         ELSE scan_periods_no_break(periods, time, idx + 1, current_index)

RECURSIVE scan_periods(_, _, _, _)
scan_periods(periods, time, idx, current_index) ==
    IF idx > Len(periods) THEN current_index
    ELSE IF time >= periods[idx].start
         THEN scan_periods(periods, time, idx + 1, idx)
         ELSE current_index

\* next_period_of reading the last period instead of the following one.
next_period_of_last(periods, current_index) ==
    IF current_index + 1 <= Len(periods) THEN periods[Len(periods)] ELSE NoPeriod

\* schedule.periods.get(current_index + 1).cloned(); NoPeriod is None.
next_period_of(periods, current_index) ==
    IF current_index + 1 <= Len(periods) THEN periods[current_index + 1] ELSE NoPeriod

\* next_period.as_ref().map(|next| next.start); NoTime is None.
current_period_end_of(next_period) ==
    IF next_period = NoPeriod THEN NoTime ELSE next_period.start

NoSection ==
    [some |-> FALSE, schedule_name |-> NoName, current_index |-> 0,
     current_period |-> NoPeriod, next_period |-> NoPeriod,
     current_period_end |-> NoTime]

\* AppData::current_section; current_index is the local of that name.
current_section(data, date, time) ==
    LET schedule_name == schedule_name_for_date(data, date) IN
    IF schedule_name = NoName THEN NoSection
    ELSE IF schedule_name \notin DOMAIN data.schedules THEN NoSection
    ELSE LET periods == data.schedules[schedule_name].periods
             current_index == scan_periods(periods, time, 1, 0)
         IN IF current_index = 0 THEN NoSection
            ELSE LET next_period == next_period_of(periods, current_index) IN
                 [some |-> TRUE, schedule_name |-> schedule_name,
                  current_index |-> current_index,
                  current_period |-> periods[current_index],
                  next_period |-> next_period,
                  current_period_end |-> current_period_end_of(next_period)]

\* Ticks in a day: the difference of two date-times is
\* (date - today) * TicksPerDay + time - now.
TicksPerDay == MaxTime + 1

SearchIdle ==
    [pc |-> "idle", today |-> NoDate, now |-> NoTime, date |-> NoDate,
     some |-> FALSE, period |-> NoPeriod, remaining |-> 0]

\* advance_day that gives up once the search has left today.
advance_day_capped(s) ==
    IF next_day(s.date) = NoDate \/ s.date > s.today
    THEN [s EXCEPT !.pc = "returned"]
    ELSE [s EXCEPT !.date = next_day(s.date)]

\* `date = date.next_day()?; continue;`: None is returned past the last date.
advance_day(s) ==
    IF next_day(s.date) = NoDate
    THEN [s EXCEPT !.pc = "returned"]
    ELSE [s EXCEPT !.date = next_day(s.date)]

\* return_first with `first.start - now_dt.time()`, the dates left out.
return_first_time_of_day(s, first) ==
    [s EXCEPT !.pc = "returned", !.some = TRUE, !.period = first,
              !.remaining = first.start - s.now]

\* `return Some((first, remaining))`.
return_first(s, first) ==
    [s EXCEPT !.pc = "returned", !.some = TRUE, !.period = first,
              !.remaining = (s.date - s.today) * TicksPerDay + first.start - s.now]

\* today_started with `now_dt.time() > first.start`.
today_started_strict(s, first) ==
    s.date = s.today /\ s.now > first.start

\* The test that sends the search of today on to the next day.
today_started(s, first) ==
    s.date = s.today /\ s.now >= first.start

\* One iteration of the loop of next_period_from.
search_iteration(data, s) ==
    LET schedule_name == schedule_name_for_date(data, s.date) IN
    IF schedule_name = NoName THEN advance_day(s)
    ELSE IF schedule_name \notin DOMAIN data.schedules
    THEN [s EXCEPT !.pc = "returned"]
    ELSE LET periods == data.schedules[schedule_name].periods IN
         IF Len(periods) = 0 THEN advance_day(s)
         ELSE IF today_started(s, periods[1]) THEN advance_day(s)
         ELSE return_first(s, periods[1])

\* ------------------------------------------------------------------ state
VARIABLES
    cal_text,     \* calendar.bell
    sched_text,   \* schedules.bell
    pc,           \* where build.rs main is, then "loaded" or "panicked"
    panic,        \* the panic message of the build, "" when none
    calendar,     \* Calendar read by read_calendar
    schedules,    \* ScheduleStore read by read_schedules
    query,        \* the last query made on the loaded AppData
    name_ret,     \* what schedule_name_for_date returned
    section,      \* what current_section returned
    search,       \* the locals and the result of next_period_from
    report        \* what current_or_next returned

vars == <<cal_text, sched_text, pc, panic, calendar, schedules,
          query, name_ret, section, search, report>>

\* The AppData build.rs serialises and load_app_data deserialises.
AppData == [calendar |-> calendar, schedules |-> schedules]

NoQuery == [op |-> "none", date |-> NoDate, time |-> NoTime]

\* No call of current_or_next yet; with status "absent", its None.
NoReport == [status |-> "none", label |-> "", msg |-> "", remaining |-> 0]

\* The start of build.rs main, the two files apart.
InitBuild ==
    /\ pc = "read_calendar"
    /\ panic = ""
    /\ calendar = NoCalendar
    /\ schedules = EmptyStore
    /\ query = NoQuery
    /\ name_ret = NoName
    /\ section = NoSection
    /\ search = SearchIdle
    /\ report = NoReport

\* ------------------------------------------------------------------ build
\* main: `let calendar = read_calendar(..)`.
ReadCalendar ==
    /\ pc = "read_calendar"
    /\ LET r == read_calendar(cal_text) IN
         /\ calendar' = r.calendar
         /\ panic' = r.panic
         /\ pc' = IF r.panic = "" THEN "read_schedules" ELSE "panicked"
    /\ UNCHANGED <<cal_text, sched_text, schedules, query, name_ret, section, search,
                   report>>

\* main: `let schedules = read_schedules(..)`.
ReadSchedules ==
    /\ pc = "read_schedules"
    /\ LET r == read_schedules(sched_text) IN
         /\ schedules' = IF r.panic = "" THEN r.schedules ELSE EmptyStore
         /\ panic' = r.panic
         /\ pc' = IF r.panic = "" THEN "verify_schedules" ELSE "panicked"
    /\ UNCHANGED <<cal_text, sched_text, calendar, query, name_ret, section, search,
                   report>>

\* main: `verify_schedules(&schedules, &calendar)`, then the AppData is
\* written out and is what load_app_data returns.
VerifySchedules ==
    /\ pc = "verify_schedules"
    /\ panic' = verify_schedules(schedules, calendar)
    /\ pc' = IF panic' = "" THEN "loaded" ELSE "panicked"
    /\ UNCHANGED <<cal_text, sched_text, calendar, schedules, query, name_ret,
                   section, search, report>>

\* ---------------------------------------------------------------- queries
ScheduleNameForDate ==
    /\ pc = "loaded"
    /\ search.pc # "loop"
    /\ \E date \in Dates :
         /\ query' = [op |-> "schedule_name_for_date", date |-> date, time |-> NoTime]
         /\ name_ret' = schedule_name_for_date(AppData, date)
    /\ section' = NoSection
    /\ search' = SearchIdle
    /\ UNCHANGED <<cal_text, sched_text, pc, panic, calendar, schedules, report>>

CurrentSection ==
    /\ pc = "loaded"
    /\ search.pc # "loop"
    /\ \E date \in Dates, time \in Times :
         /\ query' = [op |-> "current_section", date |-> date, time |-> time]
         /\ section' = current_section(AppData, date, time)
    /\ name_ret' = NoName
    /\ search' = SearchIdle
    /\ UNCHANGED <<cal_text, sched_text, pc, panic, calendar, schedules, report>>

\* The call of next_period_from(data, now_dt): `let mut date = now_dt.date()`.
\* The function is modelled for every now_dt, as its signature allows; it
\* runs to its return before another query is made.
NextPeriodFrom ==
    /\ pc = "loaded"
    /\ search.pc # "loop"
    /\ \E today \in Dates, now \in Times :
         /\ query' = [op |-> "next_period_from", date |-> today, time |-> now]
         /\ search' = [SearchIdle EXCEPT !.pc = "loop", !.today = today,
                                         !.now = now, !.date = today]
    /\ name_ret' = NoName
    /\ section' = NoSection
    /\ UNCHANGED <<cal_text, sched_text, pc, panic, calendar, schedules, report>>

\* One turn of the loop of next_period_from.
SearchLoop ==
    /\ pc = "loaded"
    /\ search.pc = "loop"
    /\ search' = search_iteration(AppData, search)
    /\ UNCHANGED <<cal_text, sched_text, pc, panic, calendar, schedules,
                   query, name_ret, section, report>>

\* `let mut date = now_dt.date()`: the locals of next_period_from at its
\* first iteration.
search_start(today, now) ==
    [SearchIdle EXCEPT !.pc = "loop", !.today = today, !.now = now, !.date = today]

\* The first arm of the match of current_or_next: the remaining time of the
\* current period, `if end > now { end - now } else { Duration::ZERO }`.
current_remaining(end, now) == IF end > now THEN end - now ELSE 0

\* `Some((label, msg, remaining))`.
Reported(label, msg, remaining) ==
    [status |-> "some", label |-> label, msg |-> msg, remaining |-> remaining]

\* current_or_next up to its match on current_section(today, now): the
\* tuple of the first arm, or the call of next_period_from of the second.
CurrentOrNext ==
    /\ pc = "loaded"
    /\ report.status # "pending"
    /\ \E today \in Dates, now \in Times :
         LET s == current_section(AppData, today, now) IN
         /\ query' = [op |-> "current_or_next", date |-> today, time |-> now]
         /\ section' = s
         /\ IF s.some /\ s.current_period_end # NoTime
            THEN /\ report' = Reported("Current", s.current_period.msg,
                                       current_remaining(s.current_period_end, now))
                 /\ search' = SearchIdle
            ELSE /\ report' = [NoReport EXCEPT !.status = "pending"]
                 /\ search' = search_start(today, now)
    /\ name_ret' = NoName
    /\ UNCHANGED <<cal_text, sched_text, pc, panic, calendar, schedules>>

\* The second arm of the match of current_or_next once next_period_from has
\* returned: `Some((period, remaining)) => ("Next", period.msg, remaining)`,
\* `None => return None`.
ReportNext ==
    /\ pc = "loaded"
    /\ report.status = "pending"
    /\ search.pc = "returned"
    /\ report' = IF search.some
                 THEN Reported("Next", search.period.msg, search.remaining)
                 ELSE [NoReport EXCEPT !.status = "absent"]
    /\ UNCHANGED <<cal_text, sched_text, pc, panic, calendar, schedules,
                   query, name_ret, section, search>>

\* ------------------------------------------------------------ input texts
\* calendar.bell with both headers, the day lines D and the date lines S.
CalText(D, S) == <<DefaultHeader>> \o D \o <<SpecialHeader>> \o S

\* cal_text is any calendar.bell with both headers and at most MaxCalLines
\* entries.
AnyCalText ==
    \E k, m \in 0..MaxCalLines :
        /\ k + m <= MaxCalLines
        /\ \E D \in [1..k -> DayLines], S \in [1..m -> DateLines] :
               cal_text = CalText(D, S)

\* calendar.bell with blank lines, without the second header, and the
\* malformed files read_calendar panics on.
OddCalTexts ==
    LET day == CalLine("day", 0, NoDate, NoDate, "A")
        date == CalLine("date", -1, 0, NoDate, "B")
    IN {<<>>, <<SpecialHeader>>, <<DefaultHeader>>, <<DefaultHeader, day>>,
        <<DefaultHeader, BlankCalLine, day, BlankCalLine, SpecialHeader, BlankCalLine, date>>,
        <<DefaultHeader, date>>, <<DefaultHeader, DefaultHeader>>,
        <<DefaultHeader, CalLine("day", 0, NoDate, NoDate, NoName)>>,
        <<DefaultHeader, SpecialHeader, day>>,
        <<DefaultHeader, SpecialHeader, SpecialHeader>>,
        <<DefaultHeader, SpecialHeader, CalLine("date", -1, 0, NoDate, NoName)>>}

\* ------------------------------------------------------- the calendar spec
\* The build on every calendar text (with an empty schedules.bell), then
\* schedule_name_for_date on the loaded data.
InitCalendar ==
    /\ AnyCalText \/ cal_text \in OddCalTexts
    /\ sched_text \in {<<>>, <<SchedLine("header", "A", NoTime, ""),
                               SchedLine("period", NoName, 0, "x")>>}
    /\ InitBuild

NextCalendar == ReadCalendar \/ ReadSchedules \/ VerifySchedules \/ ScheduleNameForDate

SpecCalendar == InitCalendar /\ [][NextCalendar]_vars

\* e (a special day, or the date line it is read from) contains date.
Covers(e, date) ==
    \/ e.until = NoDate /\ date = e.on
    \/ e.until # NoDate /\ e.on <= date /\ date <= e.until

CoveringEntries(date) ==
    {i \in DOMAIN calendar.special : Covers(calendar.special[i], date)}

Asked(op) == pc = "loaded" /\ query.op = op

\* C1: for a date that exactly one special-day entry covers,
\* schedule_name_for_date returns that entry's schedule, whatever the
\* default-week slot of the date's weekday holds.
C1_SpecialOverridesDefault ==
    Asked("schedule_name_for_date") =>
        \A i \in DOMAIN calendar.special :
            CoveringEntries(query.date) = {i} => name_ret = calendar.special[i].schedule

\* C1 witness: one covering entry, the weekday's slot set to another name.
C1_Witness ==
    /\ Asked("schedule_name_for_date")
    /\ \E i \in DOMAIN calendar.special :
         /\ CoveringEntries(query.date) = {i}
         /\ calendar.default[weekday(query.date)] \notin {NoName, calendar.special[i].schedule}
         /\ name_ret = calendar.special[i].schedule

\* The date lines of calendar.bell that contain date.
CoveringLines(date) ==
    {i \in DOMAIN cal_text : cal_text[i].kind = "date" /\ Covers(cal_text[i], date)}

MinOf(S) == CHOOSE i \in S : \A j \in S : i <= j

\* C2: when several special-day lines contain the date,
\* schedule_name_for_date returns the schedule of the earliest such line of
\* calendar.bell.
C2_FirstSpecialWins ==
    (Asked("schedule_name_for_date") /\ CoveringLines(query.date) # {}) =>
        name_ret = cal_text[MinOf(CoveringLines(query.date))].schedule

\* C2 witness: a single-date line and a range line with different schedules
\* contain the date and the earlier one is returned.
C2_Witness ==
    /\ Asked("schedule_name_for_date")
    /\ \E i, j \in CoveringLines(query.date) :
         /\ i < j
         /\ cal_text[i].schedule # cal_text[j].schedule
         /\ (cal_text[i].until = NoDate) # (cal_text[j].until = NoDate)
         /\ name_ret = cal_text[i].schedule

\* name is in one of the seven default-week slots or in a special-day entry.
Referenced(name) ==
    \/ \E d \in Weekdays : calendar.default[d] = name
    \/ \E i \in DOMAIN calendar.special : calendar.special[i].schedule = name

BuildPanickedIn(message) == pc = "panicked" /\ panic = message

\* C7: the load fails whenever the store holds a schedule name that no
\* default-week slot and no special-day entry names, so every schedule of a
\* loaded AppData is referenced by the calendar.
C7_UnreferencedScheduleFailsLoad ==
    pc = "loaded" => \A name \in DOMAIN schedules : Referenced(name)

\* C7 witness: a store with a schedule the calendar does not name (while the
\* calendar names another one) has made the load fail.
C7_Witness ==
    /\ BuildPanickedIn("Schedule is not referenced in calendar")
    /\ \E name \in DOMAIN schedules : ~Referenced(name)
    /\ \E d \in Weekdays : calendar.default[d] # NoName
    /\ calendar.special # <<>>

\* ------------------------------------------------------ the schedules spec
\* The build on every schedules.bell of at most MaxSchedLines lines, with a
\* calendar that names both schedules.
SchedLineKinds ==
    {BlankSchedLine, NamelessHeader, InvalidSchedLine} \cup HeaderLines
    \cup {SchedLine("period", NoName, t, "x") : t \in Times}

AnySchedText ==
    \E n \in 0..MaxSchedLines : \E T \in [1..n -> SchedLineKinds] : sched_text = T

InitSchedules ==
    /\ cal_text = CalText(<<CalLine("day", 0, NoDate, NoDate, "A"),
                            CalLine("day", 1, NoDate, NoDate, "B")>>, <<>>)
    /\ AnySchedText
    /\ InitBuild

NextSchedules == ReadCalendar \/ ReadSchedules \/ VerifySchedules

SpecSchedules == InitSchedules /\ [][NextSchedules]_vars

HeaderIndexes(text) == {i \in DOMAIN text : text[i].kind = "header"}

\* The same schedule name heads two blocks of the text.
DuplicateHeaders(text) ==
    \E i, j \in HeaderIndexes(text) :
        i < j /\ text[i].name # NoName /\ text[i].name = text[j].name

\* read_schedules has returned a store to main.
ReadSchedulesReturned ==
    \/ pc \in {"verify_schedules", "loaded"}
    \/ BuildPanickedIn("Schedule is not referenced in calendar")

\* C8: read_schedules fails on every schedules.bell in which a schedule name
\* heads two blocks; a store it returns has one schedule for every header.
C8_DuplicateNameFailsParsing ==
    ReadSchedulesReturned =>
        /\ ~DuplicateHeaders(sched_text)
        /\ Cardinality(DOMAIN schedules) = Cardinality(HeaderIndexes(sched_text))

\* C8 witness: the duplicate is the last line of the file, another block
\* lies between the two headers, and the parser has panicked on it.
C8_Witness ==
    /\ BuildPanickedIn("Duplicate schedule name in schedules.bell")
    /\ \E i, j, k \in HeaderIndexes(sched_text) :
         /\ i < k /\ k < j /\ j = Len(sched_text)
         /\ sched_text[i].name = sched_text[j].name
         /\ sched_text[k].name # sched_text[i].name

\* -------------------------------------------------------- the section spec
\* The build of one schedule "A" of at most MaxPeriods periods in any order,
\* under calendars that name "A" by the default week or by a special day,
\* that also name a schedule "B" the store does not have, or that do not
\* name "A"; then current_section on the loaded data.
SectionCalTexts ==
    {CalText(<<CalLine("day", 0, NoDate, NoDate, "A")>>, <<>>),
     CalText(<<>>, <<CalLine("date", -1, 0, MaxDate, "A")>>),
     CalText(<<CalLine("day", 0, NoDate, NoDate, "B")>>,
             <<CalLine("date", -1, 1, NoDate, "A")>>),
     CalText(<<CalLine("day", 0, NoDate, NoDate, "B")>>, <<>>)}

InitSection ==
    /\ cal_text \in SectionCalTexts
    /\ \E n \in 0..MaxPeriods : \E P \in [1..n -> PeriodLines] :
           sched_text = <<SchedLine("header", "A", NoTime, "")>> \o P
    /\ InitBuild

NextSection == ReadCalendar \/ ReadSchedules \/ VerifySchedules \/ CurrentSection

SpecSection == InitSection /\ [][NextSection]_vars

\* The date asked about resolves to a schedule that is in the store.
Resolved(date) ==
    /\ schedule_name_for_date(AppData, date) # NoName
    /\ schedule_name_for_date(AppData, date) \in DOMAIN schedules

ResolvedPeriods(date) == schedules[schedule_name_for_date(AppData, date)].periods

StrictlyAscending(periods) ==
    \A i, j \in DOMAIN periods : i < j => periods[i].start < periods[j].start

\* C3 as claimed: for every period p of the resolved schedule,
\* current_section at p.start returns a section whose current period is p.
C3_AsClaimed ==
    (Asked("current_section") /\ Resolved(query.date)) =>
        \A i \in DOMAIN ResolvedPeriods(query.date) :
            ResolvedPeriods(query.date)[i].start = query.time =>
                section.some /\ section.current_period = ResolvedPeriods(query.date)[i]

\* C3: when the starts of the resolved schedule's periods are strictly
\* increasing in stored order, current_section at p.start returns a section
\* whose current period is p, for every period p of the schedule.
C3_StartIsInclusive ==
    (Asked("current_section") /\ Resolved(query.date)
        /\ StrictlyAscending(ResolvedPeriods(query.date))) =>
        \A i \in DOMAIN ResolvedPeriods(query.date) :
            ResolvedPeriods(query.date)[i].start = query.time =>
                /\ section.some
                /\ section.current_index = i
                /\ section.current_period = ResolvedPeriods(query.date)[i]

\* C3 witness: the time asked is the start of a period that has a period
\* before it, and that period is the current one.
C3_Witness ==
    /\ Asked("current_section") /\ Resolved(query.date)
    /\ StrictlyAscending(ResolvedPeriods(query.date))
    /\ \E i \in DOMAIN ResolvedPeriods(query.date) :
         /\ i > 1
         /\ ResolvedPeriods(query.date)[i].start = query.time
         /\ section.some /\ section.current_index = i

\* C4: current_section returns absent when the time is before the start of
\* the first period of the resolved schedule.
C4_BeforeFirstIsAbsent ==
    (Asked("current_section") /\ Resolved(query.date)
        /\ ResolvedPeriods(query.date) # <<>>
        /\ query.time < ResolvedPeriods(query.date)[1].start) =>
        section = NoSection

\* C4 witness: the time is before the first start but not before a later
\* period's start, and the result is absent.
C4_Witness ==
    /\ Asked("current_section") /\ Resolved(query.date)
    /\ ResolvedPeriods(query.date) # <<>>
    /\ query.time < ResolvedPeriods(query.date)[1].start
    /\ \E i \in DOMAIN ResolvedPeriods(query.date) :
           ResolvedPeriods(query.date)[i].start <= query.time
    /\ section = NoSection

\* C5: in a section current_section returns, next_period is the period
\* stored right after the current one and current_period_end is its start;
\* both are absent when the current period is the last of the schedule.
C5_NextFollowsCurrent ==
    (Asked("current_section") /\ section.some) =>
        LET periods == schedules[section.schedule_name].periods
            i == section.current_index
        IN /\ i \in DOMAIN periods
           /\ section.current_period = periods[i]
           /\ IF i < Len(periods)
              THEN /\ section.next_period = periods[i + 1]
                   /\ section.current_period_end = periods[i + 1].start
              ELSE /\ section.next_period = NoPeriod
                   /\ section.current_period_end = NoTime

\* C5 witness: a section whose current period has one before and one after.
C5_Witness ==
    /\ Asked("current_section") /\ section.some
    /\ section.current_index = 2
    /\ Len(schedules[section.schedule_name].periods) = 3
    /\ section.next_period = schedules[section.schedule_name].periods[3]
    /\ section.current_period_end = section.next_period.start

\* C5 witness of the last period: nothing follows.
C5_WitnessLast ==
    /\ Asked("current_section") /\ section.some
    /\ section.current_index = Len(schedules[section.schedule_name].periods)
    /\ section.next_period = NoPeriod

\* C9: verify_schedules lets a calendar that names a schedule missing from
\* the store pass (it fails only for a schedule of the store the calendar
\* does not name), and current_section for a date that resolves to such a
\* name returns absent.
C9_DanglingNameIsAbsent ==
    /\ BuildPanickedIn("Schedule is not referenced in calendar") =>
           \E name \in DOMAIN schedules : ~Referenced(name)
    /\ (Asked("current_section")
           /\ schedule_name_for_date(AppData, query.date) # NoName
           /\ schedule_name_for_date(AppData, query.date) \notin DOMAIN schedules) =>
           section = NoSection

\* C9 witness: the data loaded with a dangling name, the date asked resolves
\* to it, and the result is absent.
C9_Witness ==
    /\ Asked("current_section")
    /\ schedule_name_for_date(AppData, query.date) # NoName
    /\ schedule_name_for_date(AppData, query.date) \notin DOMAIN schedules
    /\ section = NoSection

\* --------------------------------------------------------- the search spec
\* The build of a calendar whose default week gives each weekday of Dates
\* schedule "A", schedule "B" or nothing, with a store that has "A" (at most
\* MaxSearchPeriods periods, in any order) and has "B" with no period, with
\* one period, or not at all; then next_period_from from any date and time.
RECURSIVE WeekLines(_, _)
WeekLines(W, d) ==
    IF d > MaxDate THEN <<>>
    ELSE (IF W[d] = NoName THEN <<>>
          ELSE <<CalLine("day", weekday(d), NoDate, NoDate, W[d])>>)
         \o WeekLines(W, d + 1)

SearchTails ==
    {<<>>, <<SchedLine("header", "B", NoTime, "")>>}
    \cup {<<SchedLine("header", "B", NoTime, ""), SchedLine("period", NoName, t, "y")>> :
            t \in Times}

InitSearch ==
    /\ \E W \in [Dates -> Names \cup {NoName}] : cal_text = CalText(WeekLines(W, 0), <<>>)
    /\ \E n \in 0..MaxSearchPeriods :
         \E P \in [1..n -> {SchedLine("period", NoName, t, "x") : t \in Times}] :
           \E tail \in SearchTails :
               sched_text = <<SchedLine("header", "A", NoTime, "")>> \o P \o tail
    /\ InitBuild

Init == InitSearch

Next == ReadCalendar \/ ReadSchedules \/ VerifySchedules \/ NextPeriodFrom \/ SearchLoop

Spec == Init /\ [][Next]_vars

SearchReturned == Asked("next_period_from") /\ search.pc = "returned"

\* date resolves to a schedule of the store that has periods.
HasPeriods(date) == Resolved(date) /\ ResolvedPeriods(date) # <<>>

FirstPeriod(date) == ResolvedPeriods(date)[1]

\* date resolves to a name the store does not have.
Dangling(date) ==
    /\ schedule_name_for_date(AppData, date) # NoName
    /\ schedule_name_for_date(AppData, date) \notin DOMAIN schedules

\* Today's schedule has a first period and it has started.
TodayHasStarted ==
    HasPeriods(search.today) /\ FirstPeriod(search.today).start <= search.now

NoDanglingFrom(date) == \A d \in date..MaxDate : ~Dangling(d)

\* C6 as claimed: when today's first period has started, the search returns
\* the first period of the next day (stated for a calendar that names no
\* schedule missing from the store and has a later date with periods).
C6_AsClaimed ==
    (SearchReturned /\ TodayHasStarted /\ NoDanglingFrom(search.today)
        /\ \E d \in (search.today + 1)..MaxDate : HasPeriods(d)) =>
        /\ search.some
        /\ search.date = search.today + 1
        /\ HasPeriods(search.date)
        /\ search.period = FirstPeriod(search.date)

\* C6: when today's first period has started, the search never returns a
\* period of today: a period it returns is the first period of a later date,
\* every date skipped between today and that date having no schedule name or
\* a schedule without periods; it is the next day's first period whenever the
\* next day has a schedule with periods.
C6_StartedTodayGoesToLaterDay ==
    (SearchReturned /\ TodayHasStarted) =>
        /\ search.some =>
               /\ search.date > search.today
               /\ HasPeriods(search.date)
               /\ search.period = FirstPeriod(search.date)
               /\ \A d \in (search.today + 1)..(search.date - 1) :
                      ~Dangling(d) /\ ~HasPeriods(d)
        /\ (search.today < MaxDate /\ HasPeriods(search.today + 1)) =>
               search.some /\ search.date = search.today + 1

\* C6 witness: today's first period has started, today has a period that
\* starts later than now, and the next day's first period is returned.
C6_Witness ==
    /\ SearchReturned /\ TodayHasStarted
    /\ \E i \in DOMAIN ResolvedPeriods(search.today) :
           ResolvedPeriods(search.today)[i].start > search.now
    /\ search.some
    /\ search.date = search.today + 1
    /\ search.period = FirstPeriod(search.date)

\* The search started at today can return the first period of date.
Qualifies(date) ==
    /\ HasPeriods(date)
    /\ ~(date = search.today /\ search.now >= FirstPeriod(date).start)

NoQualifyingDate == \A d \in search.today..MaxDate : ~Qualifies(d)

\* C10 as claimed: when no date from today on has a schedule with periods
\* (today not counting once its first period has started), the search never
\* returns (stated for a search that starts at least two days before the last
\* date, on a calendar that names no schedule missing from the store).
C10_AsClaimed ==
    (Asked("next_period_from") /\ NoQualifyingDate /\ search.today < MaxDate - 1
        /\ NoDanglingFrom(search.today)) =>
        search.pc # "returned"

\* C10: the loop has no iteration cap of its own; when no date from today on
\* qualifies, the search goes on day by day until a date names a schedule
\* missing from the store or until the last date (where next_day is None),
\* and there it returns absent.
C10_SearchEndsAbsentAtLastDate ==
    (SearchReturned /\ NoQualifyingDate) =>
        /\ ~search.some
        /\ search.period = NoPeriod
        /\ Dangling(search.date) \/ search.date = MaxDate
        /\ \A d \in search.today..(search.date - 1) : ~Dangling(d)

\* C10 witness: no date qualifies, no date is dangling, and the search has
\* walked from today over later dates to the last date and returned absent.
C10_Witness ==
    /\ SearchReturned /\ NoQualifyingDate
    /\ search.today < MaxDate - 1
    /\ search.date = MaxDate
    /\ NoDanglingFrom(search.today)
    /\ ~search.some

\* The dates from today on whose first period the search can return.
QualifyingDates == {d \in search.today..MaxDate : Qualifies(d)}

\* The time from (today, now) to the start of the first period of date.
DeltaTo(date) ==
    (date - search.today) * TicksPerDay + FirstPeriod(date).start - search.now

\* C11: the search returns the first period of the earliest date from today
\* on that has a schedule with at least one period (today not counting once
\* its first period has started), with the time from now to that period's
\* start, every other date before it being skipped.
C11_ReturnsEarliestQualifying ==
    (SearchReturned /\ QualifyingDates # {}) =>
        /\ search.some
        /\ search.date = MinOf(QualifyingDates)
        /\ search.period = FirstPeriod(search.date)
        /\ search.remaining = DeltaTo(search.date)

\* ------------------------------------------------- current_or_next reports
\* What follows schedule A in schedules.bell: nothing (B is missing from the
\* store), a B without periods, or a B whose one period starts the day.
ReportTails ==
    {<<>>,
     <<SchedLine("header", "B", NoTime, "")>>,
     <<SchedLine("header", "B", NoTime, ""), SchedLine("period", NoName, 0, "y")>>}

\* The loaded data answering calls of current_or_next: a default week over
\* A, B and unscheduled days, A with any periods in any order.
InitReport ==
    /\ \E W \in [Dates -> Names \cup {NoName}] : cal_text = CalText(WeekLines(W, 0), <<>>)
    /\ \E n \in 0..MaxSearchPeriods :
         \E P \in [1..n -> {SchedLine("period", NoName, t, "x") : t \in Times}] :
           \E tail \in ReportTails :
               sched_text = <<SchedLine("header", "A", NoTime, "")>> \o P \o tail
    /\ InitBuild

NextReport ==
    \/ ReadCalendar
    \/ ReadSchedules
    \/ VerifySchedules
    \/ CurrentOrNext
    \/ SearchLoop
    \/ ReportNext

SpecReport == InitReport /\ [][NextReport]_vars

\* current_or_next returned Some((label, msg, remaining)).
HasReported ==
    /\ pc = "loaded"
    /\ query.op = "current_or_next"
    /\ report.status = "some"

MaxOf2(a, b) == IF a >= b THEN a ELSE b

\* The report is the one of a period in progress that has a following period
\* in the schedule of today, with max(end - now, 0) where end is the start of
\* the following period.
CurrentReportOk ==
    /\ Resolved(query.date)
    /\ section.some
    /\ section.current_index \in 1..(Len(ResolvedPeriods(query.date)) - 1)
    /\ report.msg = ResolvedPeriods(query.date)[section.current_index].msg
    /\ report.remaining =
         MaxOf2(ResolvedPeriods(query.date)[section.current_index + 1].start
                    - query.time, 0)

\* The report is the one of the forward search: the first period of a date
\* from today on, with the strictly positive time from now to its start.
NextReportOk ==
    /\ search.pc = "returned"
    /\ search.some
    /\ search.today = query.date
    /\ search.now = query.time
    /\ search.date \in query.date..MaxDate
    /\ HasPeriods(search.date)
    /\ report.msg = FirstPeriod(search.date).msg
    /\ report.remaining = DeltaTo(search.date)
    /\ report.remaining > 0

\* C12: every result of current_or_next has a non-negative remaining time: a
\* "Current" result is produced only when the period in progress has a
\* following period and carries max(end - now, 0); a "Next" result is for a
\* date from today on, with a strictly positive time from now to the start
\* of the returned period.
C12_RemainingIsNeverNegative ==
    HasReported =>
        /\ report.remaining >= 0
        /\ report.label \in {"Current", "Next"}
        /\ report.label = "Current" => CurrentReportOk
        /\ report.label = "Next" => NextReportOk

\* A "Next" report for a later date, after today's only period has started.
C12_Witness ==
    /\ HasReported
    /\ report.label = "Next"
    /\ HasPeriods(query.date)
    /\ query.time >= FirstPeriod(query.date).start
    /\ search.date > query.date

\* A "Current" report of a period in progress.
C12_WitnessCurrent ==
    /\ HasReported
    /\ report.label = "Current"
    /\ report.remaining > 0

====
